---- MODULE Spec2Model ----
(***************************************************************************)
(* Model of romspline's greedy.py: the ReducedOrderSpline object, its      *)
(* constructor, seed(), greedy() and read() methods, and the module-level  *)
(* functions _seed and _greedy.  eval, verify and write change no state of *)
(* the object and are left out.                                            *)
(*                                                                         *)
(* The spline fitter (scipy's UnivariateSpline with s=0) is a library the  *)
(* code calls.  It is modelled by its contract: a fit through a strictly   *)
(* increasing knot sequence of at least k+1 points interpolates exactly,   *)
(* so its error is 0 at every knot and arbitrary elsewhere (0 everywhere   *)
(* when the data are all zero; otherwise drawn from the shapes of FitErrs, *)
(* which cover each place and value of the maximum the loop can read, with *)
(* and without ties); any other knot sequence is rejected with             *)
(* ValueError ("x must be strictly increasing if s = 0").  A fit is a      *)
(* function of its knots: the same knots on the same data always give the  *)
(* same interpolant (memo).                                                *)
(*                                                                         *)
(* Indices are 0-based as in Python; sequences are 1-based, so a[i] of the *)
(* code is a[i+1] here.  Reals are integers.                               *)
(***************************************************************************)
EXTENDS Integers, Sequences, FiniteSets, TLC

\* ---- bounds ----
MaxLen == 6      \* longest domain sample
MaxDeg == 3      \* largest spline degree
MaxTol == 1      \* largest tolerance argument
MaxErr == 2      \* largest pointwise error of a fit
MaxCalls == 2    \* public calls made on the object

VARIABLES
  obj,      \* the ReducedOrderSpline instance (self)
  pc,       \* position of the call in progress: "idle", "seed", "enter", "loop", "ret"
  entry,    \* public entry point of the current / last call
  outcome,  \* how the last call ended: "none", "ok", or the exception raised
  pre,      \* obj as it was when the call in progress, or the call that just
            \* raised, started; obj itself once a call has returned
  x, y, tol, rel, deg, seeds,   \* arguments of greedy / _greedy
  tol_eff,  \* _tol of _greedy
  indices, args, errors, flag, ctr,   \* locals of _greedy
  memo,     \* knots -> |s(x)-y| of the interpolant fitted through them, this dataset
  seeded,   \* a seeding has run in the current call
  nfits,    \* spline fits made in the current call
  ncalls    \* public calls made so far

vars == <<obj, pc, entry, outcome, pre, x, y, tol, rel, deg, seeds, tol_eff,
          indices, args, errors, flag, ctr, memo, seeded, nfits, ncalls>>

\* the frame of a call: arguments, locals of _greedy and the two counters
frame == <<x, y, tol, rel, deg, seeds, tol_eff, indices, args, errors, flag, ctr,
           memo, seeded, nfits>>

\* ---- values ----
Unset == -1            \* a numeric attribute that has not been assigned
NoSeq == <<-1>>        \* an array attribute that has not been assigned
NoSeeds == <<-1>>      \* seeds=None
NoSpline == [X |-> NoSeq, Y |-> NoSeq, k |-> Unset]

Range(s) == {s[i] : i \in 1..Len(s)}
Abs(v) == IF v < 0 THEN -v ELSE v
Max(S) == CHOOSE m \in S : \A v \in S : v <= m

\* np.arange(n)
Arange(n) == [i \in 1..n |-> i - 1]

\* np.sort
RECURSIVE Sort(_)
Sort(s) ==
  IF Len(s) <= 1 THEN s
  ELSE LET m == CHOOSE i \in 1..Len(s) : \A j \in 1..Len(s) : s[i] <= s[j]
           rest == [k \in 1..Len(s)-1 |-> IF k < m THEN s[k] ELSE s[k+1]]
       IN <<s[m]>> \o Sort(rest)

\* a[idx] for an index array idx; defined when InRange(idx, Len(a))
InRange(idx, n) == \A k \in 1..Len(idx) : idx[k] >= 0 /\ idx[k] < n
Take(a, idx) == [k \in 1..Len(idx) |-> a[idx[k] + 1]]

\* np.argmax: index (0-based) of the first occurrence of the maximum
ArgMax(e) ==
  (CHOOSE i \in 1..Len(e) : /\ \A j \in 1..Len(e) : e[j] <= e[i]
                            /\ \A j \in 1..(i-1) : e[j] < e[i]) - 1

\* np.max(np.abs(y))
MaxAbs(a) == Max({Abs(a[i]) : i \in 1..Len(a)})

\* f = lambda m, n: [ii*n//m + n//(2*m) for ii in range(m)]
f(m, n) == [i \in 1..m |-> ((i - 1) * n) \div m + n \div (2 * m)]

\* _seed: the seed indices (the empty error list is set by the callers)
SeedIndices(xx, d, sd) ==
  IF sd = NoSeeds THEN Sort(<<0, Len(xx) - 1>> \o f(d - 1, Len(xx)))
  ELSE sd

\* ---- the spline fitter ----
ErrVals == 0..MaxErr
StrictlyIncreasing(s) == \A i \in 1..(Len(s) - 1) : s[i] < s[i+1]
\* precondition of an interpolating fit of degree k through x[ks], x increasing
ValidKnots(ks, k) == Len(ks) >= k + 1 /\ StrictlyIncreasing(ks)
\* the error vectors |s(x)-y| the fit through valid knots ks may have: 0 at the
\* knots, and off the knots either 0 everywhere, or v at one point p and w
\* elsewhere, with w = 0 (a single worst point) or w = v (the worst error is
\* attained at several points)
FitErrs(ks, n) ==
  IF ks \in DOMAIN memo THEN {memo[ks]}
  ELSE IF \A i \in 1..Len(y) : y[i] = 0
       THEN {[i \in 1..n |-> 0]}    \* the interpolant of zero data is zero
       ELSE LET free == {i \in 1..n : (i - 1) \notin Range(ks)}
                Shape(p, v, w) ==
                  [i \in 1..n |-> IF i = p THEN v ELSE IF i \in free THEN w ELSE 0]
            IN {[i \in 1..n |-> 0]} \cup
               {Shape(p, v, 0) : p \in free, v \in ErrVals} \cup
               {Shape(p, v, v) : p \in free, v \in ErrVals}

\* ---- inputs ----
Degrees == 2..MaxDeg
Lengths == 3..MaxLen
Tols == 0..MaxTol
\* datasets of length n: all zeros, and a wave with max |y| = 2
Zeros(n) == [i \in 1..n |-> 0]
Wave(n) == [i \in 1..n |-> IF i % 3 = 1 THEN 1 ELSE IF i % 3 = 2 THEN -2 ELSE 0]
Datasets(n) == {Zeros(n), Wave(n)}
\* caller-supplied seeds: the first d+1 indices, ascending or descending
CallerSeeds(d) == {[i \in 1..(d+1) |-> i - 1], [i \in 1..(d+1) |-> d + 1 - i]}
SeedArgs(d) == {NoSeeds} \cup CallerSeeds(d)

NewObj(d, r) ==
  [deg |-> d, rel |-> r, made |-> FALSE, tol_in |-> Unset, tol |-> Unset,
   spline |-> NoSpline, indices |-> NoSeq, args |-> NoSeq, errors |-> NoSeq,
   X |-> NoSeq, Y |-> NoSeq, size |-> Unset, compression |-> <<Unset, Unset>>]

\* ReducedOrderSpline(): lines 14-17 with the default deg=5, rel=False and no data
Init ==
  /\ obj = NewObj(5, FALSE)
  /\ pc = "idle" /\ entry = "none" /\ outcome = "none"
  /\ pre = NewObj(5, FALSE)
  /\ x = <<>> /\ y = <<>> /\ tol = 0 /\ rel = FALSE /\ deg = 5 /\ seeds = NoSeeds
  /\ tol_eff = 0 /\ indices = <<>> /\ args = <<>> /\ errors = <<>>
  /\ flag = 0 /\ ctr = 0 /\ memo = <<>>
  /\ seeded = FALSE /\ nfits = 0
  /\ ncalls = 0

\* the exceptions of the fitter and of numpy
FitError == "ValueError: x must be strictly increasing"
BroadcastError == "ValueError: operands could not be broadcast together"
Exceptions == {"AssertionError", "IndexError", "IOError", FitError, BroadcastError}

\* a call ends, by return or by exception: its frame is gone
Leave(out) ==
  /\ pc' = "idle" /\ outcome' = out
  /\ x' = <<>> /\ y' = <<>> /\ tol' = 0 /\ rel' = FALSE /\ deg' = 5 /\ seeds' = NoSeeds
  /\ tol_eff' = 0 /\ indices' = <<>> /\ args' = <<>> /\ errors' = <<>>
  /\ flag' = 0 /\ ctr' = 0 /\ memo' = <<>>
  /\ seeded' = FALSE /\ nfits' = 0

\* greedy, lines 75-83: runs on object o with the given arguments
GreedyBegin(o, xx, yy, t, r, d, sd) ==
  IF r /\ ~(MaxAbs(yy) > 0)
  THEN /\ obj' = [o EXCEPT !.deg = d, !.rel = r]
       /\ Leave("AssertionError")
  ELSE /\ obj' = [o EXCEPT !.deg = d, !.rel = r, !.tol_in = t]
       /\ pc' = "seed" /\ outcome' = "none"
       /\ x' = xx /\ y' = yy /\ tol' = t /\ rel' = r /\ deg' = d /\ seeds' = sd
       /\ seeded' = FALSE /\ nfits' = 0
       /\ UNCHANGED <<tol_eff, indices, args, errors, flag, ctr, memo>>

\* line 23: assert len(x) == len(y)
SameLength(n, m) == n = m

\* __init__ with data, lines 14-24 (x=None becomes arange(len(y)))
Construct ==
  /\ pc = "idle" /\ ncalls < MaxCalls
  /\ \E d \in Degrees, r \in BOOLEAN, t \in Tols, n \in Lengths, m \in Lengths :
     \E yy \in Datasets(m), sd \in SeedArgs(d) :
       /\ m \in {n - 1, n, n + 1}
       /\ n >= d + 1
       /\ ncalls' = ncalls + 1 /\ entry' = "__init__"
       /\ pre' = NewObj(d, r)
       /\ IF ~SameLength(n, m)
          THEN obj' = NewObj(d, r) /\ Leave("AssertionError")
          ELSE GreedyBegin(NewObj(d, r), Arange(n), yy, t, r, d, sd)

\* greedy called directly on the object
Greedy ==
  /\ pc = "idle" /\ ncalls < MaxCalls
  /\ \E d \in Degrees, r \in BOOLEAN, t \in Tols, n \in Lengths, m \in Lengths :
     \E yy \in Datasets(m), sd \in SeedArgs(d) :
       /\ m \in {n - 1, n, n + 1}
       /\ n >= d + 1
       /\ ncalls' = ncalls + 1 /\ entry' = "greedy"
       /\ pre' = obj
       /\ GreedyBegin(obj, Arange(n), yy, t, r, d, sd)

\* greedy, line 87: _seed is called and its result dropped
SeedCall ==
  /\ pc = "seed"
  /\ seeded' = TRUE
  /\ pc' = "enter"
  /\ UNCHANGED <<obj, entry, outcome, pre, ncalls, x, y, tol, rel, deg, seeds,
                 tol_eff, indices, args, errors, flag, ctr, memo, nfits>>

\* _greedy, lines 361-373
GreedyEnter ==
  /\ pc = "enter"
  /\ tol_eff' = tol * (IF rel THEN MaxAbs(y) ELSE 1)
  /\ indices' = SeedIndices(x, deg, seeds)
  /\ args' = SeedIndices(x, deg, seeds)
  /\ errors' = <<>>
  /\ flag' = 0 /\ ctr' = Len(SeedIndices(x, deg, seeds)) + 1
  /\ memo' = <<>>
  /\ pc' = "loop"
  /\ UNCHANGED <<obj, entry, outcome, pre, ncalls, x, y, tol, rel, deg, seeds,
                 seeded, nfits>>

\* line 394: the greedy error is below tolerance
Converged(e, t) == e < t
\* line 396 without the trim: the triggering index stays in args
TrimArgsKept(a) == a
\* line 396: args = args[:-1]
TrimArgs(a) == SubSeq(a, 1, Len(a) - 1)
\* line 397 left out: indices keeps the triggering index
TrimIndicesKept(a, ind) == ind
\* line 397: indices = np.sort(args), given the trimmed args and the untrimmed indices
TrimIndices(a, ind) == Sort(a)
\* line 398 without the trim: the triggering error stays in the trace
TrimErrorsKept(es) == es
\* line 398: errors = np.array(errors[:-1])
TrimErrors(es) == SubSeq(es, 1, Len(es) - 1)
\* line 374: the loop condition
LoopCond == flag = 0 /\ ctr < Len(x)

\* lines 385-400: the rest of an iteration once errs is known
Select(errs) ==
  LET imax == ArgMax(errs)
      errors1 == Append(errors, errs[imax + 1])
      args1 == Append(args, imax)
      indices1 == Sort(Append(indices, imax))
  IN /\ IF Converged(errors1[Len(errors1)], tol_eff)
        THEN /\ flag' = 1
             /\ args' = TrimArgs(args1)
             /\ indices' = TrimIndices(TrimArgs(args1), indices1)
             /\ errors' = TrimErrors(errors1)
        ELSE /\ flag' = flag
             /\ args' = args1
             /\ indices' = indices1
             /\ errors' = errors1
     /\ ctr' = ctr + 1

\* _greedy, lines 374-400: one iteration of the greedy loop
LoopIter ==
  /\ pc = "loop" /\ LoopCond
  /\ UNCHANGED <<entry, pre, ncalls, obj>>
  /\ IF ~InRange(indices, Len(y))
     THEN \* y[indices] fails before the fit
          Leave("IndexError")
     ELSE IF ~ValidKnots(indices, deg)
     THEN Leave(FitError)
     ELSE IF Len(x) # Len(y)
     THEN \* the fit is made, then s(x)-y fails: the shapes do not broadcast
          Leave(BroadcastError)
     ELSE \E errs \in FitErrs(indices, Len(x)) :
            /\ memo' = (indices :> errs) @@ memo
            /\ nfits' = nfits + 1
            /\ Select(errs)
            /\ UNCHANGED <<pc, outcome, x, y, tol, rel, deg, seeds, tol_eff, seeded>>

\* _greedy, lines 403-405: the final fit and the return
Refit ==
  /\ pc = "loop" /\ ~LoopCond
  /\ UNCHANGED <<entry, pre, ncalls, obj>>
  /\ IF ~InRange(indices, Len(y))
     THEN Leave("IndexError")
     ELSE IF ~ValidKnots(indices, deg)
     THEN Leave(FitError)
     ELSE /\ nfits' = nfits + 1
          /\ IF Len(x) # Len(y)
             THEN memo' = memo    \* no s(x)-y is defined
             ELSE \E errs \in FitErrs(indices, Len(x)) :
                    memo' = (indices :> errs) @@ memo
          /\ pc' = "ret"
          /\ UNCHANGED <<outcome, x, y, tol, rel, deg, seeds, tol_eff, seeded,
                         indices, args, errors, flag, ctr>>

\* greedy, lines 90-97: the result of _greedy becomes the model
Finish ==
  /\ pc = "ret"
  /\ obj' = [obj EXCEPT
       !.spline = [X |-> Take(x, indices), Y |-> Take(y, indices), k |-> deg],
       !.indices = indices, !.args = args, !.errors = errors, !.tol = tol_eff,
       !.X = Take(x, indices), !.Y = Take(y, indices),
       !.size = Len(indices),
       !.compression = <<Len(y), Len(indices)>>,
       !.made = TRUE]
  /\ pre' = obj'
  /\ Leave("ok")
  /\ UNCHANGED <<entry, ncalls>>

\* seed (method), lines 26-36
Seed ==
  /\ pc = "idle" /\ ncalls < MaxCalls
  /\ entry' = "seed" /\ ncalls' = ncalls + 1
  /\ \E n \in Lengths, sd \in SeedArgs(obj.deg) :
       /\ n >= obj.deg + 1
       /\ obj' = [obj EXCEPT !.indices = SeedIndices(Arange(n), obj.deg, sd),
                             !.errors = <<>>,
                             !.args = SeedIndices(Arange(n), obj.deg, sd)]
  /\ pre' = obj' /\ outcome' = "ok"
  /\ UNCHANGED <<pc, frame>>

\* the models a file can hold: deg, tol, X, Y and errors (empty when written slim)
FileModels ==
  {[deg |-> d, tol |-> 2, X |-> Arange(d + 2), Y |-> Wave(d + 2), errors |-> es] :
     d \in Degrees, es \in {<<>>, <<2>>}}

\* read, lines 216-235, with readSpline, lines 238-336
Read ==
  /\ pc = "idle" /\ ncalls < MaxCalls
  /\ entry' = "read" /\ ncalls' = ncalls + 1
  /\ \/ \* readSpline raises: bad extension or unreadable file
        /\ outcome' = "IOError" /\ obj' = obj /\ pre' = obj
     \/ \E ans \in FileModels :
          /\ obj' = [obj EXCEPT
               !.spline = [X |-> ans.X, Y |-> ans.Y, k |-> ans.deg],
               !.X = ans.X, !.Y = ans.Y, !.deg = ans.deg,
               !.errors = ans.errors, !.tol = ans.tol, !.made = TRUE]
          /\ pre' = obj'
          /\ outcome' = "ok"
  /\ UNCHANGED <<pc, frame>>

Next ==
  \/ Construct \/ Greedy \/ SeedCall \/ GreedyEnter
  \/ LoopIter \/ Refit \/ Finish \/ Seed \/ Read

\* the life of an object: up to MaxCalls public calls, one after the other
Spec == Init /\ [][Next]_vars

\* one reduction: the first public call on a new object, to the end of the call
FirstCall == entry = "none" /\ (Construct \/ Greedy)
NextFirst ==
  \/ FirstCall \/ SeedCall \/ GreedyEnter
  \/ LoopIter \/ Refit \/ Finish
SpecFirst == Init /\ [][NextFirst]_vars

\* ---- properties ----
NoDup(s) == \A i, j \in 1..Len(s) : i # j => s[i] # s[j]
Ascending(s) == \A i \in 1..(Len(s) - 1) : s[i] <= s[i+1]
MaxOf(e) == Max(Range(e))
\* the seed of the reduction in progress
TheSeed == SeedIndices(x, deg, seeds)
\* the greedy loop has been left and _greedy is returning
Returning == pc = "ret"
\* a spline fit is about to be made: an iteration's or the final one
AtFit == pc = "loop"
\* the knots of the fit that produced trace entry j+1: the seed and the first j added knots
KnotsAt(j) ==
  IF j = 0 THEN TheSeed ELSE Sort(SubSeq(args, 1, Len(TheSeed) + j))
\* a reduction has just ended well and its result is in the object
Reduced == pc = "idle" /\ outcome = "ok" /\ entry \in {"__init__", "greedy"}

\* C1: whenever _greedy leaves its loop by convergence (flag = 1), the spline
\* of the returned knots has a maximum error over the training points
\* strictly below the effective tolerance.
C1_ConvergedWithinTol ==
  (Returning /\ flag = 1) =>
     /\ indices \in DOMAIN memo
     /\ MaxOf(memo[indices]) < tol_eff

\* C1 witness: a reduction converged on a fit that is not exact, and returns.
C1_Witness ==
  /\ Returning /\ flag = 1
  /\ indices \in DOMAIN memo /\ MaxOf(memo[indices]) > 0

\* C2: for every degree d >= 2 and domain length n > d the default seed has
\* exactly d+1 indices, pairwise distinct, ascending, within 0..n-1, and
\* including 0 and n-1.
C2_DefaultSeed ==
  (AtFit /\ seeds = NoSeeds /\ nfits = 0) =>
     /\ Len(indices) = deg + 1
     /\ NoDup(indices)
     /\ Ascending(indices)
     /\ InRange(indices, Len(x))
     /\ 0 \in Range(indices) /\ (Len(x) - 1) \in Range(indices)

\* C3: starting from a duplicate-free seed, for any tolerance >= 0, the knots
\* hold no index twice at any spline fit nor in the returned result.
C3_UniqueKnots ==
  ((AtFit \/ Returning) /\ NoDup(TheSeed)) => NoDup(indices)

\* C4: the greedy loop never raises: on equal-length data with the default
\* seed every fit it makes is through knots the fitter accepts; it makes at
\* most len(x) - len(seed) iterations; the knots returned never outnumber the
\* domain; when the tolerance is never met the loop stops with len(x) - 1
\* knots and the last appended index kept.
C4_LoopEndsQuietly ==
  /\ (AtFit /\ seeds = NoSeeds /\ Len(x) = Len(y)) => ValidKnots(indices, deg)
  /\ (AtFit \/ Returning) =>
        /\ Len(errors) <= Len(x) - Len(TheSeed)
        /\ Len(indices) <= Len(x)
  /\ (Returning /\ flag = 0 /\ Len(errors) > 0) =>
        /\ Len(indices) = Len(x) - 1
        /\ Len(args) = Len(TheSeed) + Len(errors)
        /\ args[Len(args)] \in Range(indices)

\* C5: when _greedy returns, the trace has one entry per knot kept beyond the
\* seed, entry k being the maximum error of the fit through the seed and the
\* first k added knots (k from 0); on convergence the triggering index and
\* error are dropped; and size is len(indices) of the result.
C5_TracePerKnot ==
  /\ Returning =>
        /\ Len(errors) = Len(indices) - Len(TheSeed)
        /\ Len(errors) = Len(args) - Len(TheSeed)
        /\ Len(errors) = (nfits - 1) - flag
        /\ \A k \in 1..Len(errors) :
              /\ KnotsAt(k - 1) \in DOMAIN memo
              /\ errors[k] = MaxOf(memo[KnotsAt(k - 1)])
  /\ Reduced =>
        /\ obj.size = Len(obj.indices)
        /\ obj.size = Len(obj.args)

\* C5 witness: a converged reduction returns with a knot kept beyond the seed.
C5_Witness == Returning /\ flag = 1 /\ Len(errors) >= 1

\* C6: a reduction that aborts on an object holding a finished model leaves
\* every field of the object as it was before the call.
C6_AbortKeepsModel ==
  (pc = "idle" /\ entry = "greedy" /\ outcome \in Exceptions /\ pre.made) => obj = pre

\* C7: a reduction asked for with len(x) # len(y) fails before any seeding or
\* spline fit, from the constructor and from greedy alike.
C7_MismatchFailsFast ==
  (Len(x) # Len(y)) => (~seeded /\ nfits = 0)

\* C8: after read() on an object that holds a reduction every model field
\* describes the loaded model, so size = len(X) and the indices and args
\* number as many as X.
C8_ReadReplacesAll ==
  (pc = "idle" /\ entry = "read" /\ outcome = "ok" /\ obj.size # Unset) =>
     /\ obj.size = Len(obj.X)
     /\ Len(obj.indices) = Len(obj.X)
     /\ Len(obj.args) = Len(obj.X)
     /\ obj.compression[2] = Len(obj.X)

\* C9: at every spline fit of _greedy, for default and caller-supplied seeds
\* alike, indices is args sorted ascending.
C9_IndicesAreSortedArgs ==
  AtFit => indices = Sort(args)

\* C10: every entry of the trace of a reduction is at least the effective
\* tolerance, an error equal to the tolerance does not converge, and the only
\* fit measured below tolerance is the one that ends the loop.
C10_TraceNotBelowTol ==
  /\ (AtFit \/ Returning) => \A k \in 1..Len(errors) : errors[k] >= tol_eff
  /\ Returning =>
        \A ks \in DOMAIN memo : MaxOf(memo[ks]) < tol_eff => ks = indices
  /\ Reduced => \A k \in 1..Len(obj.errors) : obj.errors[k] >= obj.tol

\* C10 witness: a reduction returns a trace holding an error equal to the
\* (positive) effective tolerance.
C10_Witness ==
  /\ Returning /\ tol_eff > 0
  /\ \E k \in 1..Len(errors) : errors[k] = tol_eff
====
